---- MODULE Spec2Model ----
(***************************************************************************)
(* Field arithmetic of GF(2^255-19) in radix 2^51, modelled from           *)
(* ed25519/internal/edwards25519/fe51.go.                                  *)
(*                                                                         *)
(* Machine words are kept at their real width.  A natural number is a      *)
(* little-endian tuple of base-2^13 digits without leading zero digits     *)
(* (so two numbers are equal iff their tuples are equal); a uint64 is such *)
(* a number below 2^64, and every uint64 operation of the source is the    *)
(* exact operation followed by the truncation modulo 2^64.  A byte is a    *)
(* plain integer in 0..255.                                                *)
(*                                                                         *)
(* The operators on numbers are written without recursion, and every       *)
(* sequence they build is made a tuple at once (s \o <<>>).  A value that  *)
(* is used several times is computed once and handed on as a parameter,    *)
(* and an operator looks at its operands (for the case of zero) before     *)
(* anything else, which keeps the evaluation of nested expressions         *)
(* shallow.                                                                *)
(***************************************************************************)
EXTENDS Integers, Sequences, FiniteSets, TLC

\* ------------------------------------------------------------------------
\* Natural numbers of arbitrary size
\* ------------------------------------------------------------------------

DigitBits == 13
Base == 2^DigitBits

Max(m, n) == IF m >= n THEN m ELSE n
Min(m, n) == IF m <= n THEN m ELSE n

Dig(s, i) == IF 1 <= i /\ i <= Len(s) THEN s[i] ELSE 0

\* The tuple t without its leading (most significant) zero digits
Strip(t) ==
    IF Len(t) = 0 THEN <<>>
    ELSE IF t[Len(t)] # 0 THEN t
    ELSE IF \A i \in 1..Len(t) : t[i] = 0 THEN <<>>
    ELSE SubSeq(t, 1, CHOOSE i \in 1..Len(t) :
                         t[i] # 0 /\ \A k \in (i + 1)..Len(t) : t[k] = 0)

Norm(s) == Strip(s \o <<>>)

\* Numerals below 2^26
N(n) == IF n = 0 THEN <<>> ELSE IF n < Base THEN <<n>> ELSE <<n % Base, n \div Base>>

\* Only for numbers below 2^26
ToInt(s) == Dig(s, 1) + Base * Dig(s, 2)

\* a + b: the digit sums s, the carry into every digit and the digits.  The
\* carry into digit i is decided by the digit sum below it, or, when that is
\* exactly Base-1, by the nearest lower one that is not.
DigitSums(a, b) == [i \in 1..Max(Len(a), Len(b)) |-> Dig(a, i) + Dig(b, i)] \o <<>>

Carries(s) ==
    [i \in 1..(Len(s) + 1) |->
        IF i = 1 THEN 0
        ELSE IF s[i - 1] >= Base THEN 1
        ELSE IF s[i - 1] < Base - 1 THEN 0
        ELSE IF \E d \in 2..(i - 1) :
                   /\ s[i - d] >= Base
                   /\ \A k \in (i - d + 1)..(i - 1) : s[k] = Base - 1
             THEN 1 ELSE 0] \o <<>>

AddCarries(s, c) == Norm([i \in 1..Len(c) |-> (Dig(s, i) + c[i]) % Base])

AddSums(s) == AddCarries(s, Carries(s))

Add(a, b) ==
    IF Len(a) = 0 THEN b
    ELSE IF Len(b) = 0 THEN a
    ELSE AddSums(DigitSums(a, b))

\* a - b for a >= b, with the borrows found the same way
DigitDiffs(a, b) == [i \in 1..Len(a) |-> a[i] - Dig(b, i)] \o <<>>

Borrows(s) ==
    [i \in 1..Len(s) |->
        IF i = 1 THEN 0
        ELSE IF s[i - 1] < 0 THEN 1
        ELSE IF s[i - 1] > 0 THEN 0
        ELSE IF \E d \in 2..(i - 1) :
                   /\ s[i - d] < 0
                   /\ \A k \in (i - d + 1)..(i - 1) : s[k] = 0
             THEN 1 ELSE 0] \o <<>>

SubBorrows(s, w) == Norm([i \in 1..Len(s) |-> (s[i] - w[i]) % Base])

SubDiffs(s) == SubBorrows(s, Borrows(s))

Sub(a, b) == IF Len(a) = 0 \/ Len(b) = 0 THEN a ELSE SubDiffs(DigitDiffs(a, b))

Less(a, b) ==
    IF Len(a) # Len(b) THEN Len(a) < Len(b)
    ELSE \E i \in 1..Len(a) :
            /\ a[i] < b[i]
            /\ \A k \in (i + 1)..Len(a) : a[k] = b[k]

Leq(a, b) == ~Less(b, a)

\* The sum of the numbers of a sequence of at most 32 numbers: written out
\* for up to five, and pairwise beyond (Halve adds neighbours, and five rounds
\* leave one number).
Halve(f) == [i \in 1..((Len(f) + 1) \div 2) |-> f[2 * i - 1] + Dig(f, 2 * i)] \o <<>>

SumOf(f) ==
    CASE Len(f) = 0 -> 0
      [] Len(f) = 1 -> f[1]
      [] Len(f) = 2 -> f[1] + f[2]
      [] Len(f) = 3 -> f[1] + f[2] + f[3]
      [] Len(f) = 4 -> f[1] + f[2] + f[3] + f[4]
      [] Len(f) = 5 -> f[1] + f[2] + f[3] + f[4] + f[5]
      [] OTHER -> Halve(Halve(Halve(Halve(Halve(f)))))[1]

\* a * b, where one of a and b has fewer than 32 digits (is below 2^403):
\* the column sums, each below 2^31, split into three digits each and added.
ColumnSums(a, b) ==
    [i \in 1..(Len(a) + Len(b)) |->
        SumOf([j \in 1..(Min(Len(a), i) - Max(1, i + 1 - Len(b)) + 1) |->
                 a[Max(1, i + 1 - Len(b)) + j - 1] * b[i + 1 - Max(1, i + 1 - Len(b)) - j + 1]]
              \o <<>>)] \o <<>>

AddColumns(col) ==
    Add(Add([i \in 1..Len(col) |-> col[i] % Base],
            [i \in 1..(Len(col) + 1) |->
                IF i = 1 THEN 0 ELSE (col[i - 1] \div Base) % Base]),
        [i \in 1..(Len(col) + 2) |->
            IF i <= 2 THEN 0 ELSE col[i - 2] \div (Base * Base)])

Mul(a, b) == IF Len(a) = 0 \/ Len(b) = 0 THEN <<>> ELSE AddColumns(ColumnSums(a, b))

\* a mod 2^k, a div 2^k, a * 2^k
Low(a, k) ==
    IF Len(a) <= k \div DigitBits THEN a
    ELSE Norm([i \in 1..((k \div DigitBits) + 1) |->
                 IF i <= k \div DigitBits THEN a[i] ELSE a[i] % (2^(k % DigitBits))])

Shr(a, k) ==
    IF Len(a) <= k \div DigitBits THEN <<>>
    ELSE Norm([i \in 1..(Len(a) - (k \div DigitBits)) |->
                 (a[(k \div DigitBits) + i] \div (2^(k % DigitBits)))
                 + (Dig(a, (k \div DigitBits) + i + 1) % (2^(k % DigitBits)))
                   * (2^(DigitBits - (k % DigitBits)))])

Shl(a, k) ==
    IF Len(a) = 0 THEN <<>>
    ELSE Norm([i \in 1..((k \div DigitBits) + Len(a) + 1) |->
                 IF i <= k \div DigitBits THEN 0
                 ELSE ((Dig(a, i - (k \div DigitBits)) * (2^(k % DigitBits))) % Base)
                      + ((Dig(a, i - (k \div DigitBits) - 1) * (2^(k % DigitBits))) \div Base)])

Pow2(k) == Shl(<<1>>, k)

\* Bitwise operations on integers below 2^16, four bits at a time from a
\* table, and on numbers digit by digit
Bit(m, k) == (m \div (2^k)) % 2

And4 == [m \in 0..15 |-> [n \in 0..15 |->
            Bit(m, 0) * Bit(n, 0) + 2 * Bit(m, 1) * Bit(n, 1)
            + 4 * Bit(m, 2) * Bit(n, 2) + 8 * Bit(m, 3) * Bit(n, 3)]]

AndInt(m, n) ==
    And4[m % 16][n % 16] + 16 * And4[(m \div 16) % 16][(n \div 16) % 16]
    + 256 * And4[(m \div 256) % 16][(n \div 256) % 16]
    + 4096 * And4[m \div 4096][n \div 4096]

\* m ^ n = m + n - 2 (m & n) and m | n = m + n - (m & n)
XorInt(m, n) == m + n - 2 * AndInt(m, n)

OrInt(m, n) == m + n - AndInt(m, n)

And(a, b) ==
    IF Len(a) = 0 \/ Len(b) = 0 THEN <<>>
    ELSE Norm([i \in 1..Min(Len(a), Len(b)) |-> AndInt(a[i], b[i])])

Xor(a, b) ==
    IF Len(a) = 0 THEN b
    ELSE IF Len(b) = 0 THEN a
    ELSE Norm([i \in 1..Max(Len(a), Len(b)) |-> XorInt(Dig(a, i), Dig(b, i))])

Or(a, b) ==
    IF Len(a) = 0 THEN b
    ELSE IF Len(b) = 0 THEN a
    ELSE Norm([i \in 1..Max(Len(a), Len(b)) |-> OrInt(Dig(a, i), Dig(b, i))])

\* A hexadecimal literal of at most 16 digits, given by its digits, most
\* significant first: 0xFFFFFFFFFFFDA is Hex(<<15, ..., 15, 13, 10>>).  Bit j
\* of the literal is a bit of its digit j \div 4 from the right.
HexBit(h, j) == IF j \div 4 < Len(h) THEN Bit(h[Len(h) - j \div 4], j % 4) ELSE 0

Hex(h) ==
    Norm([i \in 1..5 |->
            SumOf([b \in 1..DigitBits |->
                     (2^(b - 1)) * HexBit(h, DigitBits * (i - 1) + b - 1)] \o <<>>)])

\* ------------------------------------------------------------------------
\* uint64
\* ------------------------------------------------------------------------

WordBits == 64

TwoTo64 == Pow2(WordBits)

Trunc64(a) == Low(a, WordBits)

IsU64(a) == Len(Shr(a, WordBits)) = 0

add64(a, b) == Trunc64(Add(a, b))

sub64(a, b) == Trunc64(Sub(Add(a, TwoTo64), b))

times64(a, b) == Trunc64(Mul(a, b))

shl64(a, k) == Trunc64(Shl(a, k))

shr64(a, k) == Shr(a, k)

\* ------------------------------------------------------------------------
\* FieldElement and the memory the operations work on
\* ------------------------------------------------------------------------

\* A function body is modelled statement by statement.  A statement, or a few
\* of them, is an operator from the state before to the state after, and the
\* body applies them innermost first; in [s EXCEPT ![i] = e, ![j] = f] the
\* updates are the statements in their order, e and f read the state s
\* before the first of them, and @ is the updated component as it is when its
\* statement runs.  A value a body computes once and uses several times is
\* computed once and handed on as a parameter.  An operator's argument is
\* evaluated where the operator first uses it, so a long body is cut in
\* stages: in The({F(v) : v \in {e}}) the value of e is complete before F
\* starts on it.

The(S) == CHOOSE v \in S : TRUE

Limbs == 0..4

Fe(l0, l1, l2, l3, l4) == 0 :> l0 @@ 1 :> l1 @@ 2 :> l2 @@ 3 :> l3 @@ 4 :> l4

maskLow51Bits == Sub(Shl(N(1), 51), N(1))

\* The prime 2^255-19, and the integer a field element stands for.
TwoTo255 == Pow2(255)

P == Sub(TwoTo255, N(19))

Value(t) ==
    Add(Add(Add(Add(t[0], Shl(t[1], 51)), Shl(t[2], 102)), Shl(t[3], 153)),
        Shl(t[4], 204))

\* n mod p for n below 2^765: 2^255 = 19 (mod p), so the part above bit 255
\* folds onto the part below, three times, and p is subtracted at most once.
Fold255(n) == Add(Low(n, 255), Mul(Shr(n, 255), N(19)))

SubtractP(n) == IF Less(n, P) THEN n ELSE Sub(n, P)

ModP(n) == SubtractP(Fold255(Fold255(Fold255(n))))

FeZero == Fe(<<>>, <<>>, <<>>, <<>>, <<>>)

\* Every operation works on a memory m of field elements and is given the
\* names of the slots its pointer arguments point to, which may be the same.

\* out[i] = a[i] + b[i]
addLimb(m, out, a, b, i) == [m EXCEPT ![out][i] = add64(m[a][i], m[b][i])]

FeAdd(m, out, a, b) ==
    addLimb(addLimb(addLimb(addLimb(addLimb(m, out, a, b, 0),
                                    out, a, b, 1),
                            out, a, b, 2),
                    out, a, b, 3),
            out, a, b, 4)

\* t[j] += t[i] >> 51; t[i] = t[i] & maskLow51Bits
carry(t, i, j) ==
    [t EXCEPT ![j] = add64(@, shr64(t[i], 51)),
              ![i] = And(@, maskLow51Bits)]

\* t[0] += (t[4] >> 51) * 19; t[4] = t[4] & maskLow51Bits
carry19(t) ==
    [t EXCEPT ![0] = add64(@, times64(shr64(t[4], 51), N(19))),
              ![4] = And(@, maskLow51Bits)]

\* The carry pass of FeSub on t, its copy of *b
subCarry(b) == carry19(carry(carry(carry(carry(b, 0, 1), 1, 2), 2, 3), 3, 4))

\* The limb 0 of p where the source has that of 2p
subK0_p == Hex(<<7, 15, 15, 15, 15, 15, 15, 15, 15, 15, 15, 14, 13>>)

\* The multiple 2p of p added limb by limb before subtracting: 0xFFFFFFFFFFFDA
\* for limb 0 and 0xFFFFFFFFFFFFE for the others.
subK0 == Hex(<<15, 15, 15, 15, 15, 15, 15, 15, 15, 15, 15, 13, 10>>)

subK1 == Hex(<<15, 15, 15, 15, 15, 15, 15, 15, 15, 15, 15, 15, 14>>)

\* out[i] = (a[i] + K) - t[i]
subLimb(m, out, a, t, i, K) ==
    [m EXCEPT ![out][i] = sub64(add64(m[a][i], K), t[i])]

subLimbs(m, out, a, t) ==
    subLimb(subLimb(subLimb(subLimb(subLimb(m, out, a, t, 0, subK0),
                                    out, a, t, 1, subK1),
                            out, a, t, 2, subK1),
                    out, a, t, 3, subK1),
            out, a, t, 4, subK1)

\* FeSub that runs its carry pass on *b itself, without the copy
FeSub_inplace(m, out, a, b) == The({subLimbs([m EXCEPT ![b] = t], out, a, t) : t \in {subCarry(m[b])}})

\* FeSub: t = *b, the carry pass on t, then the five subtractions.
FeSub(m, out, a, b) == The({subLimbs(m, out, a, t) : t \in {subCarry(m[b])}})

\* The caller's memory in a memory that also holds a callee's locals.
Frame(m) == [a |-> m["a"], b |-> m["b"], out |-> m["out"]]

\* FeNeg: a zeroed local t, then FeSub(out, &t, a).
FeNeg(m, out, a) == Frame(FeSub(m @@ ("t" :> FeZero), out, "t", a))

\* mul64 adds the 128-bit product x*y to the accumulator (accHi, accLo).  In
\* its result br is the outcome of the branch "if ol < accLo", and ov tells
\* whether the high half went beyond 64 bits.
mul64Out(ol, br, sum) ==
    [ol |-> ol, oh |-> Trunc64(sum), br |-> br, ov |-> ~IsU64(sum)]

\* mul64 that drops the carry of the low half
mul64High_nocarry(accHi, oh, ol, br) ==
    mul64Out(ol, br, Add(oh, accHi))

\* if ol < accLo { oh++ }; oh += accHi
mul64High(accHi, oh, ol, br) ==
    mul64Out(ol, br, Add(IF br THEN add64(oh, N(1)) ELSE oh, accHi))

\* the branch "if ol < accLo"
mul64Carry(accLo, accHi, oh, ol) == mul64High(accHi, oh, ol, Less(ol, accLo))

\* oh, ol = the halves of the product p; ol += accLo
mul64Low(accLo, accHi, p) ==
    mul64Carry(accLo, accHi, Shr(p, WordBits), add64(Low(p, WordBits), accLo))

mul64(accLo, accHi, x, y) == mul64Low(accLo, accHi, Mul(x, y))

\* A 128-bit accumulator (oh, ol), with the outcomes br of the branch of every
\* mul64 call made on it so far.
acc0 == [ol |-> <<>>, oh |-> <<>>, br |-> <<>>, ov |-> FALSE]

accJoin(br, ov, r) ==
    [ol |-> r.ol, oh |-> r.oh, br |-> Append(br, r.br), ov |-> ov \/ r.ov]

\* r_i0, r_i1 = mul64(r_i0, r_i1, x, y), on the accumulator as the calls
\* before have left it
accMul(acc, x, y) ==
    The({accJoin(r.br, r.ov, mul64(r.ol, r.oh, x, y)) : r \in {acc}})

\* The five accumulators r0..r4, from the tuple of them
Coeffs(t) == 0 :> t[1] @@ 1 :> t[2] @@ 2 :> t[3] @@ 3 :> t[4] @@ 4 :> t[5]

\* The statements of the coefficient reduction.  s is the exact value of
\* what the statement assigns, and wide tells that a value it was made of
\* went beyond 64 bits already.
setLow(r, i, s, wide) ==
    [r EXCEPT ![i].ol = Trunc64(s), ![i].ov = @ \/ wide \/ ~IsU64(s)]

setHigh(r, i, s) ==
    [r EXCEPT ![i].oh = Trunc64(s), ![i].ov = @ \/ ~IsU64(s)]

maskLow(r, i) == [r EXCEPT ![i].ol = And(@, maskLow51Bits)]

\* r_i1 = (r_i1 << 13) | (r_i0 >> 51); r_i0 &= maskLow51Bits
shldHigh(r, i, s) ==
    [r EXCEPT ![i].oh = Or(Trunc64(s), shr64(r[i].ol, 51)),
              ![i].ov = @ \/ ~IsU64(s)]

shld(r, i) == maskLow(shldHigh(r, i, Shl(r[i].oh, 13)), i)

\* r_i0 += r_j1
addHigh(r, i, j) == setLow(r, i, Add(r[i].ol, r[j].oh), FALSE)

\* r41 *= 19
times19(r) == setHigh(r, 4, Mul(r[4].oh, N(19)))

\* r_j0 += r_i0 >> 51; r_i0 &= maskLow51Bits
carry51(r, i, j) == maskLow(setLow(r, j, Add(r[j].ol, shr64(r[i].ol, 51)), FALSE), i)

\* r00 += (r40 >> 51) * 19; r40 &= maskLow51Bits
wrapAdd(r, p) == setLow(r, 0, Add(r[0].ol, Trunc64(p)), ~IsU64(p))

wrap19(r) == maskLow(wrapAdd(r, Mul(shr64(r[4].ol, 51), N(19))), 4)

\* The first pass of the coefficient reduction of FeMul, the same code in
\* FeSquare: the high halves move into the next coefficient.
reducePass1(r) ==
    The({addHigh(times19(addHigh(shld(r3, 4), 4, 3)), 0, 4) :
         r3 \in {addHigh(shld(r2, 3), 3, 2) :
         r2 \in {addHigh(shld(r1, 2), 2, 1) :
         r1 \in {addHigh(shld(shld(r, 0), 1), 1, 0)}}}})

\* The coefficient reduction: the first pass, then the carries from limb to
\* limb and from r4 times 19 into r0.
reducePass2(r) == wrap19(carry51(carry51(carry51(carry51(r, 0, 1), 1, 2), 2, 3), 3, 4))

\* The coefficient reduction without its second pass
reduceCoeffs_onepass(r) == reducePass1(r)

reduceCoeffs(r) == The({reducePass2(t) : t \in {reducePass1(r)}})

\* out[0] = r00, ..., out[4] = r40
storeLimbs(m, out, r) ==
    [m EXCEPT ![out][0] = r[0].ol, ![out][1] = r[1].ol, ![out][2] = r[2].ol,
              ![out][3] = r[3].ol, ![out][4] = r[4].ol]

\* What a run of FeMul or FeSquare computed: the memory it leaves, the five
\* accumulated 128-bit coefficients r (r[i] is r_{i-1}), the outcomes br of
\* its branches, and whether any 64-bit step went beyond 64 bits (scaled
\* tells it of the operands scaled beforehand, red is r reduced).
runRecord(m, out, r, red, scaled) ==
    [mem  |-> storeLimbs(m, out, red),
     r    |-> [i \in 1..5 |-> Add(Shl(r[i - 1].oh, WordBits), r[i - 1].ol)] \o <<>>,
     br   |-> r[0].br \o r[1].br \o r[2].br \o r[3].br \o r[4].br,
     wrap |-> scaled \/ \E i \in Limbs : red[i].ov]

runOf(m, out, r, scaled) == runRecord(m, out, r, reduceCoeffs(r), scaled)

\* The locals of FeMul: the copies of *x and *y, and x1_19 .. x4_19
mulLocals(x, y) ==
    [x0 |-> x[0], x1 |-> x[1], x2 |-> x[2], x3 |-> x[3], x4 |-> x[4],
     y0 |-> y[0], y1 |-> y[1], y2 |-> y[2], y3 |-> y[3], y4 |-> y[4],
     x1_19 |-> times64(x[1], N(19)), x2_19 |-> times64(x[2], N(19)),
     x3_19 |-> times64(x[3], N(19)), x4_19 |-> times64(x[4], N(19))]

\* The 25 mul64 calls of FeMul in their order, five for each of r0..r4, by
\* the names of the two locals they multiply
mulProducts ==
    << \* r0 = x0*y0 + 19*(x1*y4 + x2*y3 + x3*y2 + x4*y1)
       << <<"x0", "y0">>, <<"x1_19", "y4">>, <<"x2_19", "y3">>,
          <<"x3_19", "y2">>, <<"x4_19", "y1">> >>,
       \* r1 = x0*y1 + x1*y0 + 19*(x2*y4 + x3*y3 + x4*y2)
       << <<"x0", "y1">>, <<"x1", "y0">>, <<"x2_19", "y4">>,
          <<"x3_19", "y3">>, <<"x4_19", "y2">> >>,
       \* r2 = x0*y2 + x1*y1 + x2*y0 + 19*(x3*y4 + x4*y3)
       << <<"x0", "y2">>, <<"x1", "y1">>, <<"x2", "y0">>,
          <<"x3_19", "y4">>, <<"x4_19", "y3">> >>,
       \* r3 = x0*y3 + x1*y2 + x2*y1 + x3*y0 + 19*x4*y4
       << <<"x0", "y3">>, <<"x1", "y2">>, <<"x2", "y1">>,
          <<"x3", "y0">>, <<"x4_19", "y4">> >>,
       \* r4 = x0*y4 + x1*y3 + x2*y2 + x3*y1 + x4*y0
       << <<"x0", "y4">>, <<"x1", "y3">>, <<"x2", "y2">>,
          <<"x3", "y1">>, <<"x4", "y0">> >> >>

\* One coefficient of FeMul: its five mul64 calls on the locals L
mulCoeff(L, c) ==
    accMul(accMul(accMul(accMul(accMul(acc0,
        L[c[1][1]], L[c[1][2]]), L[c[2][1]], L[c[2][2]]), L[c[3][1]], L[c[3][2]]),
        L[c[4][1]], L[c[4][2]]), L[c[5][1]], L[c[5][2]])

mulCoeffs(L) == Coeffs([i \in 1..5 |-> mulCoeff(L, mulProducts[i])] \o <<>>)

\* Whether x1*19 .. x4*19 go beyond 64 bits
mulScaled(x) == \E i \in 1..4 : ~IsU64(Mul(x[i], N(19)))

\* FeMul: the copies of *x and *y, x1_19 .. x4_19, the products, the
\* reduction, the store to out.
FeMulRun(m, out, x, y) ==
    The({runOf(m, out, r, mulScaled(m[x])) : r \in {mulCoeffs(mulLocals(m[x], m[y]))}})

FeMul(m, out, x, y) == FeMulRun(m, out, x, y).mem

\* The locals of FeSquare with x1 scaled by 19 where the source scales it by 38
squareLocals_x1by19(x) ==
    [x0 |-> x[0], x1 |-> x[1], x2 |-> x[2], x3 |-> x[3], x4 |-> x[4],
     x0_2 |-> shl64(x[0], 1), x1_2 |-> shl64(x[1], 1),
     x1_38 |-> times64(x[1], N(19)), x2_38 |-> times64(x[2], N(38)),
     x3_38 |-> times64(x[3], N(38)),
     x3_19 |-> times64(x[3], N(19)), x4_19 |-> times64(x[4], N(19))]

\* The locals of FeSquare: the copy of *x and its doubled and scaled limbs
squareLocals(x) ==
    [x0 |-> x[0], x1 |-> x[1], x2 |-> x[2], x3 |-> x[3], x4 |-> x[4],
     x0_2 |-> shl64(x[0], 1), x1_2 |-> shl64(x[1], 1),
     x1_38 |-> times64(x[1], N(38)), x2_38 |-> times64(x[2], N(38)),
     x3_38 |-> times64(x[3], N(38)),
     x3_19 |-> times64(x[3], N(19)), x4_19 |-> times64(x[4], N(19))]

\* The 15 mul64 calls of FeSquare in their order, three for each of r0..r4
squareProducts ==
    << \* r0 = x0*x0 + x1*38*x4 + x2*38*x3
       << <<"x0", "x0">>, <<"x1_38", "x4">>, <<"x2_38", "x3">> >>,
       \* r1 = x0*2*x1 + x2*38*x4 + x3*19*x3
       << <<"x0_2", "x1">>, <<"x2_38", "x4">>, <<"x3_19", "x3">> >>,
       \* r2 = x0*2*x2 + x1*x1 + x3*38*x4
       << <<"x0_2", "x2">>, <<"x1", "x1">>, <<"x3_38", "x4">> >>,
       \* r3 = x0*2*x3 + x1*2*x2 + x4*19*x4
       << <<"x0_2", "x3">>, <<"x1_2", "x2">>, <<"x4_19", "x4">> >>,
       \* r4 = x0*2*x4 + x1*2*x3 + x2*x2
       << <<"x0_2", "x4">>, <<"x1_2", "x3">>, <<"x2", "x2">> >> >>

\* One coefficient of FeSquare: its three mul64 calls on the locals L
squareCoeff(L, c) ==
    accMul(accMul(accMul(acc0,
        L[c[1][1]], L[c[1][2]]), L[c[2][1]], L[c[2][2]]), L[c[3][1]], L[c[3][2]])

squareCoeffs(L) == Coeffs([i \in 1..5 |-> squareCoeff(L, squareProducts[i])] \o <<>>)

\* Whether x0*2, x1*2, x1*38, x2*38, x3*38, x3*19 or x4*19 goes beyond 64 bits
squareScaled(x) ==
    \/ \E i \in 0..1 : ~IsU64(Shl(x[i], 1))
    \/ \E i \in 1..3 : ~IsU64(Mul(x[i], N(38)))
    \/ \E i \in 3..4 : ~IsU64(Mul(x[i], N(19)))

\* FeSquare: the copy of *x, the doubled and scaled operands, the products,
\* the reduction, the store to out.
FeSquareRun(m, out, x) ==
    The({runOf(m, out, r, squareScaled(m[x])) : r \in {squareCoeffs(squareLocals(m[x]))}})

FeSquare(m, out, x) == FeSquareRun(m, out, x).mem

\* FeSquare2: FeSquare(out, a), then FeAdd(out, out, out).
FeSquare2Run(m, out, a) ==
    [FeSquareRun(m, out, a) EXCEPT !.mem = FeAdd(@, out, out, out)]

FeSquare2(m, out, a) == FeSquare2Run(m, out, a).mem

\* f[i] ^= negate & (f[i] ^ g[i])
cmoveLimb(m, f, g, negate, i) ==
    [m EXCEPT ![f][i] = Xor(@, And(negate, Xor(m[f][i], m[g][i])))]

cmoveLimbs(m, f, g, negate) ==
    cmoveLimb(cmoveLimb(cmoveLimb(cmoveLimb(cmoveLimb(m, f, g, negate, 0),
                                            f, g, negate, 1),
                                  f, g, negate, 2),
                        f, g, negate, 3),
              f, g, negate, 4)

\* FeCMove whose mask is the flag itself
FeCMove_flagmask(m, f, g, b) == cmoveLimbs(m, f, g, b)

\* b is an int32 converted to uint64; negate is (1<<64 - 1) times it.
FeCMove(m, f, g, b) == cmoveLimbs(m, f, g, times64(Sub(TwoTo64, N(1)), b))

\* ------------------------------------------------------------------------
\* Encoding and decoding
\* ------------------------------------------------------------------------

\* The conversions uint64(c) of a byte c and byte(z) of a uint64 z
u64(c) == N(c)

byte(z) == ToInt(Low(z, 8))

\* FeFromBytes that keeps bit 255 of the array
FeFromBytes_nomask(m, v, x) ==
    [m EXCEPT ![v][0] = u64(x[0]),
              ![v][0] = Or(@, shl64(u64(x[1]), 8)),
              ![v][0] = Or(@, shl64(u64(x[2]), 16)),
              ![v][0] = Or(@, shl64(u64(x[3]), 24)),
              ![v][0] = Or(@, shl64(u64(x[4]), 32)),
              ![v][0] = Or(@, shl64(u64(x[5]), 40)),
              ![v][0] = Or(@, shl64(u64(AndInt(x[6], 7)), 48)),
              ![v][1] = shr64(u64(x[6]), 3),
              ![v][1] = Or(@, shl64(u64(x[7]), 5)),
              ![v][1] = Or(@, shl64(u64(x[8]), 13)),
              ![v][1] = Or(@, shl64(u64(x[9]), 21)),
              ![v][1] = Or(@, shl64(u64(x[10]), 29)),
              ![v][1] = Or(@, shl64(u64(x[11]), 37)),
              ![v][1] = Or(@, shl64(u64(AndInt(x[12], 63)), 45)),
              ![v][2] = shr64(u64(x[12]), 6),
              ![v][2] = Or(@, shl64(u64(x[13]), 2)),
              ![v][2] = Or(@, shl64(u64(x[14]), 10)),
              ![v][2] = Or(@, shl64(u64(x[15]), 18)),
              ![v][2] = Or(@, shl64(u64(x[16]), 26)),
              ![v][2] = Or(@, shl64(u64(x[17]), 34)),
              ![v][2] = Or(@, shl64(u64(x[18]), 42)),
              ![v][2] = Or(@, shl64(u64(AndInt(x[19], 1)), 50)),
              ![v][3] = shr64(u64(x[19]), 1),
              ![v][3] = Or(@, shl64(u64(x[20]), 7)),
              ![v][3] = Or(@, shl64(u64(x[21]), 15)),
              ![v][3] = Or(@, shl64(u64(x[22]), 23)),
              ![v][3] = Or(@, shl64(u64(x[23]), 31)),
              ![v][3] = Or(@, shl64(u64(x[24]), 39)),
              ![v][3] = Or(@, shl64(u64(AndInt(x[25], 15)), 47)),
              ![v][4] = shr64(u64(x[25]), 4),
              ![v][4] = Or(@, shl64(u64(x[26]), 4)),
              ![v][4] = Or(@, shl64(u64(x[27]), 12)),
              ![v][4] = Or(@, shl64(u64(x[28]), 20)),
              ![v][4] = Or(@, shl64(u64(x[29]), 28)),
              ![v][4] = Or(@, shl64(u64(x[30]), 36)),
              ![v][4] = Or(@, shl64(u64(x[31]), 44))]

\* FeFromBytes(v, x): x is the 32-byte array, v the slot written.
FeFromBytes(m, v, x) ==
    [m EXCEPT ![v][0] = u64(x[0]),
              ![v][0] = Or(@, shl64(u64(x[1]), 8)),
              ![v][0] = Or(@, shl64(u64(x[2]), 16)),
              ![v][0] = Or(@, shl64(u64(x[3]), 24)),
              ![v][0] = Or(@, shl64(u64(x[4]), 32)),
              ![v][0] = Or(@, shl64(u64(x[5]), 40)),
              ![v][0] = Or(@, shl64(u64(AndInt(x[6], 7)), 48)),
              ![v][1] = shr64(u64(x[6]), 3),
              ![v][1] = Or(@, shl64(u64(x[7]), 5)),
              ![v][1] = Or(@, shl64(u64(x[8]), 13)),
              ![v][1] = Or(@, shl64(u64(x[9]), 21)),
              ![v][1] = Or(@, shl64(u64(x[10]), 29)),
              ![v][1] = Or(@, shl64(u64(x[11]), 37)),
              ![v][1] = Or(@, shl64(u64(AndInt(x[12], 63)), 45)),
              ![v][2] = shr64(u64(x[12]), 6),
              ![v][2] = Or(@, shl64(u64(x[13]), 2)),
              ![v][2] = Or(@, shl64(u64(x[14]), 10)),
              ![v][2] = Or(@, shl64(u64(x[15]), 18)),
              ![v][2] = Or(@, shl64(u64(x[16]), 26)),
              ![v][2] = Or(@, shl64(u64(x[17]), 34)),
              ![v][2] = Or(@, shl64(u64(x[18]), 42)),
              ![v][2] = Or(@, shl64(u64(AndInt(x[19], 1)), 50)),
              ![v][3] = shr64(u64(x[19]), 1),
              ![v][3] = Or(@, shl64(u64(x[20]), 7)),
              ![v][3] = Or(@, shl64(u64(x[21]), 15)),
              ![v][3] = Or(@, shl64(u64(x[22]), 23)),
              ![v][3] = Or(@, shl64(u64(x[23]), 31)),
              ![v][3] = Or(@, shl64(u64(x[24]), 39)),
              ![v][3] = Or(@, shl64(u64(AndInt(x[25], 15)), 47)),
              ![v][4] = shr64(u64(x[25]), 4),
              ![v][4] = Or(@, shl64(u64(x[26]), 4)),
              ![v][4] = Or(@, shl64(u64(x[27]), 12)),
              ![v][4] = Or(@, shl64(u64(x[28]), 20)),
              ![v][4] = Or(@, shl64(u64(x[29]), 28)),
              ![v][4] = Or(@, shl64(u64(x[30]), 36)),
              ![v][4] = Or(@, shl64(u64(AndInt(x[31], 127)), 44))]

\* The carry bit c of t + 19: c := (t[0] + 19) >> 51, then c = (t[i] + c) >> 51
\* for i = 1..4
carryBit(t) ==
    The({shr64(add64(t[4], c3), 51) :
         c3 \in {shr64(add64(t[3], c2), 51) :
         c2 \in {shr64(add64(t[2], c1), 51) :
         c1 \in {shr64(add64(t[1], c0), 51) :
         c0 \in {shr64(add64(t[0], N(19)), 51)}}}}})

\* feReduce that does not add 19 times the carry bit
addCarryBit_none(t, c) == t

\* t[0] += 19 * c
addCarryBit(t, c) == [t EXCEPT ![0] = add64(@, times64(N(19), c))]

\* The carry pass of feReduce on t, its copy of *v, and the carry bit added
reduceCarry(t) == addCarryBit(t, carryBit(t))

\* t[4] = t[4] & maskLow51Bits
maskTop(t) == [t EXCEPT ![4] = And(@, maskLow51Bits)]

\* feReduce(t, v): *t = *v, the carry pass, the carry bit of t + 19 added
\* times 19, and the final pass that drops bit 255.
reducePass(t) == carry19(carry(carry(carry(carry(t, 0, 1), 1, 2), 2, 3), 3, 4))

finalPass(t) == maskTop(carry(carry(carry(carry(t, 0, 1), 1, 2), 2, 3), 3, 4))

feReduce(v) ==
    The({finalPass(t) : t \in {reduceCarry(s) : s \in {reducePass(v)}}})

\* FeToBytes that assigns the high bits of r[6] where the source xors them in
toBytes_assign6(r, t) ==
    [r EXCEPT ![0] = byte(And(t[0], N(255))),
              ![1] = byte(And(shr64(t[0], 8), N(255))),
              ![2] = byte(And(shr64(t[0], 16), N(255))),
              ![3] = byte(And(shr64(t[0], 24), N(255))),
              ![4] = byte(And(shr64(t[0], 32), N(255))),
              ![5] = byte(And(shr64(t[0], 40), N(255))),
              ![6] = byte(shr64(t[0], 48)),
              ![6] = byte(And(shl64(t[1], 3), N(248))),
              ![7] = byte(And(shr64(t[1], 5), N(255))),
              ![8] = byte(And(shr64(t[1], 13), N(255))),
              ![9] = byte(And(shr64(t[1], 21), N(255))),
              ![10] = byte(And(shr64(t[1], 29), N(255))),
              ![11] = byte(And(shr64(t[1], 37), N(255))),
              ![12] = byte(shr64(t[1], 45)),
              ![12] = XorInt(@, byte(And(shl64(t[2], 6), N(192)))),
              ![13] = byte(And(shr64(t[2], 2), N(255))),
              ![14] = byte(And(shr64(t[2], 10), N(255))),
              ![15] = byte(And(shr64(t[2], 18), N(255))),
              ![16] = byte(And(shr64(t[2], 26), N(255))),
              ![17] = byte(And(shr64(t[2], 34), N(255))),
              ![18] = byte(And(shr64(t[2], 42), N(255))),
              ![19] = byte(shr64(t[2], 50)),
              ![19] = XorInt(@, byte(And(shl64(t[3], 1), N(254)))),
              ![20] = byte(And(shr64(t[3], 7), N(255))),
              ![21] = byte(And(shr64(t[3], 15), N(255))),
              ![22] = byte(And(shr64(t[3], 23), N(255))),
              ![23] = byte(And(shr64(t[3], 31), N(255))),
              ![24] = byte(And(shr64(t[3], 39), N(255))),
              ![25] = byte(shr64(t[3], 47)),
              ![25] = XorInt(@, byte(And(shl64(t[4], 4), N(240)))),
              ![26] = byte(And(shr64(t[4], 4), N(255))),
              ![27] = byte(And(shr64(t[4], 12), N(255))),
              ![28] = byte(And(shr64(t[4], 20), N(255))),
              ![29] = byte(And(shr64(t[4], 28), N(255))),
              ![30] = byte(And(shr64(t[4], 36), N(255))),
              ![31] = byte(shr64(t[4], 44))]

\* The 36 assignments of FeToBytes to r, from the reduced t
toBytes(r, t) ==
    [r EXCEPT ![0] = byte(And(t[0], N(255))),
              ![1] = byte(And(shr64(t[0], 8), N(255))),
              ![2] = byte(And(shr64(t[0], 16), N(255))),
              ![3] = byte(And(shr64(t[0], 24), N(255))),
              ![4] = byte(And(shr64(t[0], 32), N(255))),
              ![5] = byte(And(shr64(t[0], 40), N(255))),
              ![6] = byte(shr64(t[0], 48)),
              ![6] = XorInt(@, byte(And(shl64(t[1], 3), N(248)))),
              ![7] = byte(And(shr64(t[1], 5), N(255))),
              ![8] = byte(And(shr64(t[1], 13), N(255))),
              ![9] = byte(And(shr64(t[1], 21), N(255))),
              ![10] = byte(And(shr64(t[1], 29), N(255))),
              ![11] = byte(And(shr64(t[1], 37), N(255))),
              ![12] = byte(shr64(t[1], 45)),
              ![12] = XorInt(@, byte(And(shl64(t[2], 6), N(192)))),
              ![13] = byte(And(shr64(t[2], 2), N(255))),
              ![14] = byte(And(shr64(t[2], 10), N(255))),
              ![15] = byte(And(shr64(t[2], 18), N(255))),
              ![16] = byte(And(shr64(t[2], 26), N(255))),
              ![17] = byte(And(shr64(t[2], 34), N(255))),
              ![18] = byte(And(shr64(t[2], 42), N(255))),
              ![19] = byte(shr64(t[2], 50)),
              ![19] = XorInt(@, byte(And(shl64(t[3], 1), N(254)))),
              ![20] = byte(And(shr64(t[3], 7), N(255))),
              ![21] = byte(And(shr64(t[3], 15), N(255))),
              ![22] = byte(And(shr64(t[3], 23), N(255))),
              ![23] = byte(And(shr64(t[3], 31), N(255))),
              ![24] = byte(And(shr64(t[3], 39), N(255))),
              ![25] = byte(shr64(t[3], 47)),
              ![25] = XorInt(@, byte(And(shl64(t[4], 4), N(240)))),
              ![26] = byte(And(shr64(t[4], 4), N(255))),
              ![27] = byte(And(shr64(t[4], 12), N(255))),
              ![28] = byte(And(shr64(t[4], 20), N(255))),
              ![29] = byte(And(shr64(t[4], 28), N(255))),
              ![30] = byte(And(shr64(t[4], 36), N(255))),
              ![31] = byte(shr64(t[4], 44))]

\* FeToBytes(r, v): r is the 32-byte array written, v the element encoded.
FeToBytes(r, v) == The({toBytes(r, t) : t \in {feReduce(v)}})

\* ------------------------------------------------------------------------
\* Inputs
\* ------------------------------------------------------------------------

\* The integer a 32-byte array stands for, little-endian, and the array
\* standing for an integer below 2^256.
Word(x, i) ==
    Or(Or(Or(u64(x[i]), Shl(u64(x[i + 1]), 8)),
          Or(Shl(u64(x[i + 2]), 16), Shl(u64(x[i + 3]), 24))),
       Or(Or(Shl(u64(x[i + 4]), 32), Shl(u64(x[i + 5]), 40)),
          Or(Shl(u64(x[i + 6]), 48), Shl(u64(x[i + 7]), 56))))

BytesValue(x) ==
    Or(Or(Word(x, 0), Shl(Word(x, 8), 64)),
       Or(Shl(Word(x, 16), 128), Shl(Word(x, 24), 192)))

Encoding(n) == [i \in 0..31 |-> ToInt(Low(Shr(n, 8 * i), 8))]

\* A 64-bit word that depends on n in no simple way
MixA == Hex(<<5, 8, 5, 1, 15, 4, 2, 13, 4, 12, 9, 5, 7, 15, 2, 13>>)

MixC == Hex(<<1, 4, 0, 5, 7, 11, 7, 14, 15, 7, 6, 7, 8, 1, 4, 15>>)

mixShift(u, k) == Xor(u, Shr(u, k))

Mix(n) ==
    The({mixShift(times64(u, MixA), 32) :
         u \in {mixShift(times64(Add(N(n), MixC), MixA), 29)}})

\* A field element with limbs anywhere below 2^54, and 32 bytes, from a seed
LooseFe(s) ==
    Fe(Shr(Mix(s), 10), Shr(Mix(s + 1), 10), Shr(Mix(s + 2), 10),
       Shr(Mix(s + 3), 10), Shr(Mix(s + 4), 10))

SomeBytes(s) ==
    Encoding(Or(Or(Mix(s), Shl(Mix(s + 1), 64)),
                Or(Shl(Mix(s + 2), 128), Shl(Mix(s + 3), 192))))

TwoTo51 == Pow2(51)

TwoTo52 == Pow2(52)

TwoTo54 == Pow2(54)

Max51 == Sub(TwoTo51, N(1))

Max54 == Sub(TwoTo54, N(1))

FeOne == Fe(N(1), <<>>, <<>>, <<>>, <<>>)

\* The limbs of p and of p - 1
FeP == Fe(Sub(TwoTo51, N(19)), Max51, Max51, Max51, Max51)

FePMinus1 == Fe(Sub(TwoTo51, N(20)), Max51, Max51, Max51, Max51)

\* The inputs the calls are made on: the corner cases first (the largest
\* loose limbs, an element whose product with one carries into limb 0, zero,
\* the limbs of p, limbs of exactly 2^54; the bytes of 2^256-1, p, p+5, 1 and
\* p-1), then as many others as the bound asks for.
NumInputs == 7

InputA(k) ==
    CASE k = 1 -> Fe(Max54, Max54, Max54, Max54, Max54)
      [] k = 2 -> Fe(Max51, <<>>, <<>>, TwoTo51, Max51)
      [] k = 3 -> FeZero
      [] k = 4 -> FeP
      [] k = 5 -> Fe(TwoTo54, TwoTo54, TwoTo54, TwoTo54, TwoTo54)
      [] OTHER -> LooseFe(100 * k)

InputB(k) ==
    CASE k = 1 -> Fe(Max54, Max54, Max54, Max54, Max54)
      [] k = 2 -> FeOne
      [] k = 3 -> LooseFe(100 * k + 10)
      [] k = 4 -> FePMinus1
      [] k = 5 -> Fe(Max51, Max51, Max51, Max51, Max51)
      [] OTHER -> LooseFe(100 * k + 10)

InputBytes(k) ==
    CASE k = 1 -> [i \in 0..31 |-> 255]
      [] k = 2 -> Encoding(P)
      [] k = 3 -> Encoding(Add(P, N(5)))
      [] k = 4 -> Encoding(N(1))
      [] k = 5 -> Encoding(Sub(P, N(1)))
      [] OTHER -> SomeBytes(100 * k + 20)

\* ------------------------------------------------------------------------
\* The calls
\* ------------------------------------------------------------------------

\* mem is the memory of field elements (the slots a, b and out), buf the
\* 32-byte array.  hist lists the calls made, pre and prebuf are mem and buf
\* as they were when the last call was made, and run is what the last call
\* computed on its way (see runOf; noRun for the calls without coefficients).
VARIABLES mem, buf, pre, prebuf, run, hist

vars == <<mem, buf, pre, prebuf, run, hist>>

MaxCalls == 1

MaxCodecCalls == 4

noRun == [r |-> <<>>, br |-> <<>>, wrap |-> FALSE]

Call(op, out, a, b, flag) == [op |-> op, out |-> out, a |-> a, b |-> b, flag |-> flag]

Init ==
    \E k \in 1..NumInputs :
        /\ mem = [a |-> InputA(k), b |-> InputB(k), out |-> FeZero]
        /\ buf = InputBytes(k)
        /\ pre = [a |-> InputA(k), b |-> InputB(k), out |-> FeZero]
        /\ prebuf = InputBytes(k)
        /\ run = noRun
        /\ hist = <<>>

\* What every call does besides its own work
Called(c, bound) ==
    /\ Len(hist) < bound
    /\ pre' = mem
    /\ prebuf' = buf
    /\ hist' = Append(hist, c)

\* What a call of FeMul, FeSquare or FeSquare2 leaves, R being its run
Ran(R) ==
    /\ mem' = R.mem
    /\ run' = [r |-> R.r, br |-> R.br, wrap |-> R.wrap]

CallFeAdd(out) ==
    /\ Called(Call("FeAdd", out, "a", "b", 0), MaxCalls)
    /\ mem' = FeAdd(mem, out, "a", "b")
    /\ run' = noRun
    /\ UNCHANGED buf

CallFeSub(out) ==
    /\ Called(Call("FeSub", out, "a", "b", 0), MaxCalls)
    /\ mem' = FeSub(mem, out, "a", "b")
    /\ run' = noRun
    /\ UNCHANGED buf

CallFeNeg(out) ==
    /\ Called(Call("FeNeg", out, "a", "a", 0), MaxCalls)
    /\ mem' = FeNeg(mem, out, "a")
    /\ run' = noRun
    /\ UNCHANGED buf

CallFeMul(out) ==
    /\ Called(Call("FeMul", out, "a", "b", 0), MaxCalls)
    /\ Ran(FeMulRun(mem, out, "a", "b"))
    /\ UNCHANGED buf

CallFeSquare(out) ==
    /\ Called(Call("FeSquare", out, "a", "a", 0), MaxCalls)
    /\ Ran(FeSquareRun(mem, out, "a"))
    /\ UNCHANGED buf

CallFeSquare2(out) ==
    /\ Called(Call("FeSquare2", out, "a", "a", 0), MaxCalls)
    /\ Ran(FeSquare2Run(mem, out, "a"))
    /\ UNCHANGED buf

\* FeCMove(f, g, b) with f the slot a and g the slot b
CallFeCMove(flag) ==
    /\ Called(Call("FeCMove", "a", "a", "b", flag), MaxCalls)
    /\ mem' = FeCMove(mem, "a", "b", N(flag))
    /\ run' = noRun
    /\ UNCHANGED buf

CallFeFromBytes(v) ==
    /\ Called(Call("FeFromBytes", v, v, v, 0), MaxCodecCalls)
    /\ mem' = FeFromBytes(mem, v, buf)
    /\ run' = noRun
    /\ UNCHANGED buf

CallFeToBytes(v) ==
    /\ Called(Call("FeToBytes", v, v, v, 0), MaxCodecCalls)
    /\ buf' = FeToBytes(buf, mem[v])
    /\ run' = noRun
    /\ UNCHANGED mem

\* The arithmetic calls, with the output slot distinct from the inputs or
\* aliased with one
Next ==
    \/ \E out \in {"out", "a"} : CallFeAdd(out)
    \/ \E out \in {"out", "a", "b"} : CallFeSub(out)
    \/ \E out \in {"out", "a"} : CallFeNeg(out)
    \/ \E out \in {"out", "a", "b"} : CallFeMul(out)
    \/ \E out \in {"out", "a"} : CallFeSquare(out)
    \/ \E out \in {"out", "a"} : CallFeSquare2(out)
    \/ \E flag \in {0, 1} : CallFeCMove(flag)

Spec == Init /\ [][Next]_vars

\* The calls of the codec
NextCodec ==
    \/ CallFeFromBytes("a")
    \/ \E v \in {"a", "b"} : CallFeToBytes(v)

SpecCodec == Init /\ [][NextCodec]_vars

\* ------------------------------------------------------------------------
\* Properties
\* ------------------------------------------------------------------------

\* The last call made, and whether it was a call of op
last == hist[Len(hist)]

Made(op) == hist # <<>> /\ last.op = op

LimbsBelow(f, bound) == \A i \in Limbs : Less(f[i], bound)

LimbsUpTo(f, bound) == \A i \in Limbs : Leq(f[i], bound)

\* x - y modulo p for y below 2^259 = 16 * 2^255
SubModP(x, y) == ModP(Add(x, Sub(Shl(P, 4), y)))

\* A memory holding x and y, for applying an operation to them
Operands(x, y) == [a |-> x, b |-> y, out |-> FeZero]

\* C1: after FeMul(out, x, y) on x and y with all limbs below 2^54, the value
\* of out is congruent modulo p to value(x) * value(y), the 64-bit steps being
\* computed modulo 2^64; in particular the product with one = [1,0,0,0,0] is
\* congruent to x.
C1_FeMulIsProduct ==
    (Made("FeMul") /\ LimbsBelow(pre[last.a], TwoTo54) /\ LimbsBelow(pre[last.b], TwoTo54))
    => /\ ModP(Value(mem[last.out]))
          = ModP(Mul(Value(pre[last.a]), Value(pre[last.b])))
       /\ pre[last.b] = FeOne
          => ModP(Value(mem[last.out])) = ModP(Value(pre[last.a]))

\* FeMul was called on loose operands whose product exceeds p, and a low half
\* carried into its high half on the way.
C1_Witness ==
    /\ Made("FeMul")
    /\ LimbsBelow(pre[last.a], TwoTo54)
    /\ LimbsBelow(pre[last.b], TwoTo54)
    /\ \E i \in Limbs : ~Less(pre[last.a][i], TwoTo51)
    /\ ~Less(Mul(Value(pre[last.a]), Value(pre[last.b])), P)
    /\ \E i \in 1..Len(run.br) : run.br[i]

\* C2: for v with limbs up to 2^54, reduced or loose, FeToBytes(r, v) writes
\* the little-endian encoding of value(v) mod p: the top bit of r[31] is 0 and
\* the encoded integer is below p.
C2_FeToBytesCanonical ==
    (Made("FeToBytes") /\ LimbsUpTo(mem[last.a], TwoTo54))
    => /\ buf = Encoding(ModP(Value(mem[last.a])))
       /\ buf[31] < 128
       /\ Less(BytesValue(buf), P)

\* FeToBytes was called on a loose element whose value is at least p.
C2_Witness ==
    /\ Made("FeToBytes")
    /\ LimbsUpTo(mem[last.a], TwoTo54)
    /\ \E i \in Limbs : ~Less(mem[last.a][i], TwoTo51)
    /\ ~Less(Value(mem[last.a]), P)
    /\ buf # prebuf

\* The last two calls decoded the array into a slot and encoded that slot
\* back: prebuf is the array decoded, buf the array encoded.
RoundTrip ==
    /\ Len(hist) >= 2
    /\ hist[Len(hist) - 1].op = "FeFromBytes"
    /\ last.op = "FeToBytes"
    /\ last.a = hist[Len(hist) - 1].out

\* The last four calls were two round trips, one after the other.
TwoRoundTrips ==
    /\ RoundTrip
    /\ Len(hist) >= 4
    /\ hist[Len(hist) - 3].op = "FeFromBytes"
    /\ hist[Len(hist) - 2].op = "FeToBytes"
    /\ hist[Len(hist) - 2].a = hist[Len(hist) - 3].out

\* C3: FeToBytes(FeFromBytes(x)) is the encoding of (x with bit 255 cleared)
\* mod p: x itself when x encodes an integer below p, and then a second round
\* trip changes nothing; the encodings of p, p+5 and 2^255-1 give those of 0,
\* 5 and 18.
C3_RoundTrip ==
    /\ RoundTrip
       => /\ buf = Encoding(ModP(Low(BytesValue(prebuf), 255)))
          /\ Less(BytesValue(prebuf), P) => buf = prebuf
          /\ prebuf = Encoding(P) => buf = Encoding(<<>>)
          /\ prebuf = Encoding(Add(P, N(5))) => buf = Encoding(N(5))
          /\ Low(BytesValue(prebuf), 255) = Sub(TwoTo255, N(1))
             => buf = Encoding(N(18))
    /\ TwoRoundTrips => buf = prebuf

\* The encoding of p+5 went through a round trip and came out as that of 5.
C3_Witness ==
    /\ RoundTrip
    /\ prebuf = Encoding(Add(P, N(5)))
    /\ buf = Encoding(N(5))
    /\ buf # prebuf

\* C4: FeSub(out, a, b) on a and b with limbs below 2^54 never underflows
\* (a[i] + K_i >= t[i] for the carried copy t of b) and leaves a value
\* congruent to value(a) - value(b); FeNeg(out, a) leaves one congruent to
\* -value(a), and FeAdd of a and that is congruent to 0.
C4_FeSubNoUnderflow ==
    /\ (Made("FeSub") /\ LimbsBelow(pre[last.a], TwoTo54)
                      /\ LimbsBelow(pre[last.b], TwoTo54))
       => /\ \A i \in Limbs :
                Leq(subCarry(pre[last.b])[i],
                    Add(pre[last.a][i], IF i = 0 THEN subK0 ELSE subK1))
          /\ ModP(Value(mem[last.out]))
             = SubModP(Value(pre[last.a]), Value(pre[last.b]))
    /\ (Made("FeNeg") /\ LimbsBelow(pre[last.a], TwoTo54))
       => /\ ModP(Value(mem[last.out])) = SubModP(<<>>, Value(pre[last.a]))
          /\ ModP(Value(FeAdd(Operands(pre[last.a], mem[last.out]),
                              "out", "a", "b")["out"])) = <<>>

\* FeSub was called on loose operands where a limb of a is smaller than the
\* limb subtracted from it.
C4_Witness ==
    /\ Made("FeSub")
    /\ LimbsBelow(pre[last.a], TwoTo54)
    /\ LimbsBelow(pre[last.b], TwoTo54)
    /\ \E i \in Limbs : Less(pre[last.a][i], subCarry(pre[last.b])[i])
    /\ \E i \in Limbs : ~Less(pre[last.b][i], TwoTo51)

\* C5: after FeCMove(f, g, 1) f has the limbs of g, after FeCMove(f, g, 0)
\* the limbs it had, and g is unchanged, whatever the limbs.
C5_FeCMoveSelects ==
    Made("FeCMove")
    => /\ last.flag = 1 => mem[last.out] = pre[last.b]
       /\ last.flag = 0 => mem[last.out] = pre[last.out]
       /\ mem[last.b] = pre[last.b]

\* FeCMove moved a loose g into a different f.
C5_Witness ==
    /\ Made("FeCMove")
    /\ last.flag = 1
    /\ pre[last.out] # pre[last.b]
    /\ \E i \in Limbs : ~Less(pre[last.b][i], TwoTo51)
    /\ mem[last.out] = pre[last.b]

\* The branch outcomes of the call c made on zero operands
BranchesOnZero(c) ==
    CASE c.op = "FeMul" ->
           FeMulRun(Operands(FeZero, FeZero), c.out, c.a, c.b).br
      [] c.op = "FeSquare" ->
           FeSquareRun(Operands(FeZero, FeZero), c.out, c.a).br
      [] c.op = "FeSquare2" ->
           FeSquare2Run(Operands(FeZero, FeZero), c.out, c.a).br
      [] OTHER -> <<>>

\* C6: no operation has a data-dependent branch: the sequence of branch
\* outcomes of a call is the same for any two inputs, so the one of the call
\* made is the one the same call has on zero operands.
C6_NoDataDependentBranch ==
    hist # <<>> => run.br = BranchesOnZero(last)

\* C7: for a with limbs below 2^54, FeSquare(out, a) accumulates the five
\* coefficients FeMul(out', a, a) accumulates and leaves the limbs it leaves,
\* of value congruent to value(a)^2; and FeSquare2(out, a) leaves, limb for
\* limb, FeAdd of FeSquare(a) and FeSquare(a), congruent to 2 * value(a)^2.
C7_SquareIsMul ==
    /\ (Made("FeSquare") /\ LimbsBelow(pre[last.a], TwoTo54))
       => /\ run.r = FeMulRun(pre, "out", last.a, last.a).r
          /\ mem[last.out] = FeMul(pre, "out", last.a, last.a)["out"]
          /\ ModP(Value(mem[last.out]))
             = ModP(Mul(Value(pre[last.a]), Value(pre[last.a])))
    /\ (Made("FeSquare2") /\ LimbsBelow(pre[last.a], TwoTo54))
       => /\ mem[last.out]
             = FeAdd(Operands(FeSquare(pre, "out", last.a)["out"],
                              FeSquare(pre, "out", last.a)["out"]),
                     "out", "a", "b")["out"]
          /\ ModP(Value(mem[last.out]))
             = ModP(Mul(N(2), Mul(Value(pre[last.a]), Value(pre[last.a]))))

\* FeSquare was called on a loose element with no zero limb.
C7_Witness ==
    /\ Made("FeSquare")
    /\ LimbsBelow(pre[last.a], TwoTo54)
    /\ \A i \in Limbs : pre[last.a][i] # <<>>
    /\ \E i \in Limbs : ~Less(pre[last.a][i], TwoTo51)
    /\ \A i \in 1..5 : run.r[i] # <<>>

\* C8 as stated: the element FeFromBytes writes has every limb below 2^51 and
\* a value below p.
C8_DecodeIsReduced ==
    Made("FeFromBytes")
    => /\ LimbsBelow(mem[last.out], TwoTo51)
       /\ Less(Value(mem[last.out]), P)

\* C8, corrected: the element FeFromBytes writes has every limb below 2^51 and
\* the value of the array with bit 255 cleared, which is below 2^255, and below
\* p only if the array's low 255 bits are.
C8_DecodeLimbsReduced ==
    Made("FeFromBytes")
    => /\ LimbsBelow(mem[last.out], TwoTo51)
       /\ Value(mem[last.out]) = Low(BytesValue(buf), 255)
       /\ Less(Value(mem[last.out]), TwoTo255)
       /\ Less(Value(mem[last.out]), P) <=> Less(Low(BytesValue(buf), 255), P)

\* FeFromBytes decoded an array with bit 255 set into a value that is not
\* below p.
C8_Witness ==
    /\ Made("FeFromBytes")
    /\ buf[31] >= 128
    /\ ~Less(Value(mem[last.out]), P)
    /\ LimbsBelow(mem[last.out], TwoTo51)

\* C9: on inputs with limbs below 2^54, FeMul and FeSquare leave limbs 1..4
\* below 2^51 and limb 0 below 2^52, and no step overflows 64 bits; so the
\* output is again an input with limbs below 2^54, and so is FeAdd of two such
\* outputs.
C9_OutputBounded ==
    ((Made("FeMul") \/ Made("FeSquare"))
       /\ LimbsBelow(pre[last.a], TwoTo54) /\ LimbsBelow(pre[last.b], TwoTo54))
    => /\ \A i \in 1..4 : Less(mem[last.out][i], TwoTo51)
       /\ Less(mem[last.out][0], TwoTo52)
       /\ ~run.wrap
       /\ LimbsBelow(mem[last.out], TwoTo54)
       /\ LimbsBelow(FeAdd(Operands(mem[last.out], mem[last.out]),
                           "out", "a", "b")["out"], TwoTo54)

\* FeMul left a limb 0 that is not below 2^51.
C9_Witness ==
    /\ Made("FeMul")
    /\ LimbsBelow(pre[last.a], TwoTo54)
    /\ LimbsBelow(pre[last.b], TwoTo54)
    /\ ~Less(mem[last.out][0], TwoTo51)
    /\ ~run.wrap

\* The memory the call c leaves when made on the memory m
Apply(c, m) ==
    CASE c.op = "FeAdd" -> FeAdd(m, c.out, c.a, c.b)
      [] c.op = "FeSub" -> FeSub(m, c.out, c.a, c.b)
      [] c.op = "FeNeg" -> FeNeg(m, c.out, c.a)
      [] c.op = "FeMul" -> FeMul(m, c.out, c.a, c.b)
      [] c.op = "FeSquare" -> FeSquare(m, c.out, c.a)
      [] c.op = "FeSquare2" -> FeSquare2(m, c.out, c.a)

Arithmetic == {"FeAdd", "FeSub", "FeNeg", "FeMul", "FeSquare", "FeSquare2"}

\* C10: an arithmetic call whose output slot is one of its input slots leaves
\* there the limbs the same call leaves in a distinct output slot, and a call
\* with a distinct output slot leaves its inputs as they were.
C10_AliasingSafe ==
    (hist # <<>> /\ last.op \in Arithmetic)
    => /\ last.out \in {last.a, last.b}
          => mem[last.out] = Apply([last EXCEPT !.out = "out"], pre)["out"]
       /\ last.out \notin {last.a, last.b}
          => mem[last.a] = pre[last.a] /\ mem[last.b] = pre[last.b]

\* FeSub(b, a, b) was called on a b with a limb that carries, and changed b.
C10_Witness ==
    /\ Made("FeSub")
    /\ last.out = last.b
    /\ \E i \in Limbs : ~Less(pre[last.b][i], TwoTo51)
    /\ mem[last.b] # pre[last.b]

====
